---- MODULE Spec2Model ----
(***************************************************************************)
(* Model of placekey_poc (src/main.py): AddressNormalizer.encode_placekey, *)
(* its two field mappers result_to_dict and parse_address, and the batch   *)
(* driver encode_csv.                                                      *)
(*                                                                         *)
(* Python strings are sequences of one-character strings, so that split,   *)
(* upper, strip, join and string formatting are computed character by      *)
(* character.  A dict is a function whose DOMAIN is its key set; a raised  *)
(* exception is a record with an "exc" field naming its class.  Python's   *)
(* None is the record None where an object is expected (a Location, a      *)
(* dict, a tuple) and the one-element sequence NoneStr, which is no string *)
(* of characters, where a str is expected.                                 *)
(***************************************************************************)
EXTENDS Integers, Sequences, FiniteSets, TLC

VARIABLES
  pc,        \* position of the program
  mode,      \* "none", "single" (encode_placekey called directly) or "csv"
  address,   \* encode_placekey argument: the raw address
  poi,       \* encode_placekey argument: point_of_interest_name
  prefer,    \* encode_placekey argument: prefer_my_name
  location,  \* local of encode_placekey: the geocoder's result
  d,         \* local of encode_placekey: the payload dict
  pk,        \* local of encode_placekey: the last lookup_placekey result
  calls,     \* the current call's lookup_placekey calls: payload and reply
  geocodes,  \* geocoder calls made by the current call
  outcome,   \* how the current encode_placekey call ended (return or raise)
  log,       \* log records emitted since the current row (or call) was taken up
  rows,      \* rows of the input file (csv.DictReader)
  idx,       \* number of input rows read so far
  out,       \* data rows written to the output file
  status     \* encode_csv: "idle", "running", "finished" or "aborted"

vars == <<pc, mode, address, poi, prefer, location, d, pk, calls, geocodes,
          outcome, log, rows, idx, out, status>>

None == [None |-> TRUE]
NoneStr == <<"None">>

(***************************************************************************)
(* Bounds of the model.                                                    *)
(***************************************************************************)
MaxRows == 2       \* longest input file
MaxNameParts == 2  \* most leading name parts of a formatted address

(***************************************************************************)
(* Python string operations, on the characters the addresses are written   *)
(* in: the ASCII letters, digits, punctuation and the space, which is the  *)
(* only whitespace character.                                              *)
(***************************************************************************)
LowerLetters == <<"a","b","c","d","e","f","g","h","i","j","k","l","m",
                  "n","o","p","q","r","s","t","u","v","w","x","y","z">>
UpperLetters == <<"A","B","C","D","E","F","G","H","I","J","K","L","M",
                  "N","O","P","Q","R","S","T","U","V","W","X","Y","Z">>

UpperChar(c) ==
  IF \E i \in 1..Len(LowerLetters) : LowerLetters[i] = c
  THEN UpperLetters[CHOOSE i \in 1..Len(LowerLetters) : LowerLetters[i] = c]
  ELSE c

\* str.upper()
Upper(s) == [i \in 1..Len(s) |-> UpperChar(s[i])]

\* str.strip(): drop leading and trailing whitespace
RECURSIVE LStrip(_)
LStrip(s) == IF s # <<>> /\ Head(s) = " " THEN LStrip(Tail(s)) ELSE s

RECURSIVE RStrip(_)
RStrip(s) ==
  IF s # <<>> /\ s[Len(s)] = " " THEN RStrip(SubSeq(s, 1, Len(s) - 1)) ELSE s

Strip(s) == RStrip(LStrip(s))

StartsWith(s, prefix) ==
  Len(s) >= Len(prefix) /\ SubSeq(s, 1, Len(prefix)) = prefix

\* str.split(sep): cut at each occurrence of sep, scanning from the left
RECURSIVE Split(_, _)
Split(s, sep) ==
  LET hits == {i \in 1..(Len(s) - Len(sep) + 1) :
                 SubSeq(s, i, i + Len(sep) - 1) = sep}
  IN IF hits = {} THEN <<s>>
     ELSE LET i == CHOOSE h \in hits : \A g \in hits : h <= g
          IN <<SubSeq(s, 1, i - 1)>>
               \o Split(SubSeq(s, i + Len(sep), Len(s)), sep)

\* str.split(): the maximal runs of non-whitespace characters
RECURSIVE SplitWhitespace(_)
SplitWhitespace(s) ==
  LET t == LStrip(s)
  IN IF t = <<>> THEN <<>>
     ELSE LET spaces == {i \in 1..Len(t) : t[i] = " "}
              n == IF spaces = {} THEN Len(t) + 1
                   ELSE CHOOSE h \in spaces : \A g \in spaces : h <= g
          IN <<SubSeq(t, 1, n - 1)>> \o SplitWhitespace(SubSeq(t, n, Len(t)))

\* sep.join(parts)
RECURSIVE Join(_, _)
Join(parts, sep) ==
  IF parts = <<>> THEN <<>>
  ELSE IF Len(parts) = 1 THEN parts[1]
  ELSE parts[1] \o sep \o Join(Tail(parts), sep)

CommaSpace == <<",", " ">>
Space == <<" ">>
NoneText == <<"N","o","n","e">>

\* the text an f-string puts for a value: str(None) is "None"
Format(v) == IF v = NoneStr THEN NoneText ELSE v

\* dict.get(key) of a str value
Get(dict, key) == IF key \in DOMAIN dict THEN dict[key] ELSE NoneStr

\* the dict without one key: d.pop(key, None)
Without(dict, key) == [k \in DOMAIN dict \ {key} |-> dict[k]]

\* the dict with d[key] = value
With(dict, key, value) ==
  [k \in DOMAIN dict \cup {key} |-> IF k = key THEN value ELSE dict[k]]

\* Python truthiness of a str-or-None value
Truthy(v) == v # NoneStr /\ v # <<>>

Ok(value) == [tag |-> "ok", value |-> value]
Raise(exc, what) == [tag |-> "raise", exc |-> exc, what |-> what]

(***************************************************************************)
(* AddressNormalizer.parse_address: the fallback parser.                   *)
(***************************************************************************)
UnitedStatesText == <<"U","n","i","t","e","d"," ","S","t","a","t","e","s">>

\* line 101-102: split on ", ", then upper-case and strip every part
AddressParts(loc) ==
  LET split == Split(loc.address, CommaSpace)
  IN [i \in 1..Len(split) |-> Strip(Upper(split[i]))]

\* line 116-119: the country code of an upper-cased country literal
CountryCode(country) ==
  IF country = Upper(UnitedStatesText)
  THEN Ok(<<"u", "s">>)
  ELSE Raise("ValueError", "Could not map country code")

\* line 133-134: an empty location_name is removed from the payload
DropEmptyName(dict) ==
  IF Len(Strip(dict["location_name"])) < 1
  THEN Without(dict, "location_name")
  ELSE dict

ParseAddress(loc) ==
  LET parts == AddressParts(loc)
      n == Len(parts)
  IN IF n < 4
     THEN Raise("IndexError", "pop from empty list")       \* line 103-106
     ELSE
       LET country == parts[n]
           region_zip == parts[n - 1]
           city == parts[n - 2]
           street == parts[n - 3]
           location_name == Join(SubSeq(parts, 1, n - 4), CommaSpace)
           region_parts == SplitWhitespace(region_zip)
       IN IF region_parts = <<>>
          THEN Raise("IndexError", "pop from empty list")  \* line 112
          ELSE
            LET zipcode == region_parts[Len(region_parts)]
                region ==
                  Join(SubSeq(region_parts, 1, Len(region_parts) - 1), Space)
                code == CountryCode(country)
            IN IF code.tag = "raise" THEN code
               ELSE Ok(DropEmptyName(
                      [street_address |-> street,
                       region |-> region,
                       postal_code |-> zipcode,
                       location_name |-> location_name,
                       city |-> city,
                       iso_country_code |-> code.value,
                       latitude |-> loc.latitude,
                       longitude |-> loc.longitude]))

(***************************************************************************)
(* AddressNormalizer.result_to_dict: the primary mapper.                   *)
(***************************************************************************)
PrefixPlace == <<"p","l","a","c","e">>
PrefixRegion == <<"r","e","g","i","o","n">>
PrefixPostcode == <<"p","o","s","t","c","o","d","e">>
PrefixCountry == <<"c","o","u","n","t","r","y">>

\* line 153: a result is a POI when "poi" is among its place types
IsPoi(raw) == \E i \in 1..Len(raw["place_type"]) : raw["place_type"][i] = "poi"

\* line 154-158: the address of the result, by kind
RawAddress(raw) ==
  IF IsPoi(raw)
  THEN IF "properties" \notin DOMAIN raw
       THEN Raise("AttributeError", "'NoneType' object has no attribute 'get'")
       ELSE Ok(Get(raw["properties"], "address"))
  ELSE Ok(Get(raw, "address"))

\* line 159-162: next(iter([y[field] for y in context
\*                          if y["id"].startswith(prefix)]), None)
FirstToken(context, prefix, field) ==
  LET all == 1..Len(context)
      hits == {i \in all : "id" \in DOMAIN context[i]
                           /\ StartsWith(context[i]["id"], prefix)}
  IN IF \E i \in all : "id" \notin DOMAIN context[i]
     THEN Raise("KeyError", "id")
     ELSE IF \E i \in hits : field \notin DOMAIN context[i]
     THEN Raise("KeyError", field)
     ELSE IF hits = {} THEN Ok(NoneStr)
     ELSE Ok(context[CHOOSE h \in hits : \A g \in hits : h <= g][field])

\* mutant of StreetAddress: the POI street line is concatenated as well
StreetAddressAlwaysJoined(is_poi, addr, result_text) ==
  Format(addr) \o Space \o result_text

\* line 165: the street line, by kind
StreetAddress(is_poi, addr, result_text) ==
  IF is_poi THEN addr ELSE Format(addr) \o Space \o result_text

\* line 165-173: the payload put together
MappedDict(is_poi, addr, result_text, city, region, postcode, code, lat, lon) ==
  LET base == [street_address |-> StreetAddress(is_poi, addr, result_text),
               region |-> region,
               postal_code |-> postcode,
               iso_country_code |-> code,
               city |-> city,
               latitude |-> lat,
               longitude |-> lon]
  IN IF is_poi THEN With(base, "location_name", result_text) ELSE base

ResultToDict(result) ==
  IF result = None
  THEN Raise("AttributeError", "'NoneType' object has no attribute 'raw'")
  ELSE
    LET raw == result.raw
    IN IF "context" \notin DOMAIN raw THEN Raise("KeyError", "context")
       ELSE IF "text" \notin DOMAIN raw THEN Raise("KeyError", "text")
       ELSE IF "place_type" \notin DOMAIN raw THEN Raise("KeyError", "place_type")
       ELSE
         LET addr == RawAddress(raw)
             city == FirstToken(raw["context"], PrefixPlace, "text")
             region == FirstToken(raw["context"], PrefixRegion, "text")
             postcode == FirstToken(raw["context"], PrefixPostcode, "text")
             code == FirstToken(raw["context"], PrefixCountry, "short_code")
         IN IF addr.tag = "raise" THEN addr
            ELSE IF city.tag = "raise" THEN city
            ELSE IF region.tag = "raise" THEN region
            ELSE IF postcode.tag = "raise" THEN postcode
            ELSE IF code.tag = "raise" THEN code
            ELSE Ok(MappedDict(IsPoi(raw), addr.value, raw["text"],
                               city.value, region.value, postcode.value,
                               code.value, result.latitude, result.longitude))

(***************************************************************************)
(* The inputs: what the geocoder can return, what the identifier service   *)
(* can answer, and the input files.                                        *)
(***************************************************************************)
StreetLine == <<"1"," ","E","l","m"," ","S","t">>
StreetName == <<"E","l","m"," ","S","t">>
HouseNumber == <<"1">>
CityText == <<"K","e","n","a","i">>
OtherCityText == <<"N","i","k","i","s","k","i">>
RegionText == <<"A","l","a","s","k","a">>
PostcodeText == <<"9","9","6","1","1">>
HoodText == <<"O","l","d"," ","T","o","w","n">>
RegionZip == <<"A","K"," ","9","9","6","1","1">>
LongRegionZip == <<"N","e","w"," ","J","e","r","s","e","y"," ","0","7","9","8","0">>
PaddedLowerUs == <<" ","u","n","i","t","e","d"," ","s","t","a","t","e","s"," ">>
CanadaText == <<"C","a","n","a","d","a">>
ShopText == <<"S","h","o","p">>
ChainText == <<"A","c","m","e">>
HintText == <<"M","y"," ","S","h","o","p">>
RawAddress1 == <<"1"," ","e","l","m"," ","s","t"," ","k","e","n","a","i">>
RawAddress2 == <<"s","h","o","p"," ","k","e","n","a","i"," ","a","k">>
PlacekeyA == <<"2","2","2","@","3","b","h">>
PlacekeyB == <<"z","z","w","@","6","2","8">>
ErrorInvalid == <<"I","n","v","a","l","i","d"," ","a","d","d","r","e","s","s">>
ErrorNoMatch == <<"N","o"," ","m","a","t","c","h">>

\* the context tokens of a geocoder result
TokenHood == [id |-> <<"n","e","i","g","h","b","o","r","h","o","o","d",".","1">>,
              text |-> HoodText]
TokenPostcode == [id |-> <<"p","o","s","t","c","o","d","e",".","1">>,
                  text |-> PostcodeText]
TokenPlace == [id |-> <<"p","l","a","c","e",".","1">>, text |-> CityText]
TokenPlace2 == [id |-> <<"p","l","a","c","e",".","2">>, text |-> OtherCityText]
TokenRegion == [id |-> <<"r","e","g","i","o","n",".","1">>, text |-> RegionText,
                short_code |-> <<"U","S","-","A","K">>]
TokenCountry == [id |-> <<"c","o","u","n","t","r","y",".","1">>,
                 text |-> UnitedStatesText, short_code |-> <<"u","s">>]

Contexts ==
  { <<TokenPostcode, TokenRegion, TokenPlace, TokenCountry>>,
    <<TokenCountry, TokenPlace2, TokenPlace>>,
    <<>>,
    <<TokenPlace, Without(TokenCountry, "short_code")>>,
    <<TokenPlace, Without(TokenHood, "id")>> }

\* the raw record of a POI result and of a plain address result
PoiRaw(context) ==
  [place_type |-> <<"poi">>, text |-> ShopText,
   properties |-> [address |-> StreetLine, category |-> <<"s","h","o","p">>],
   context |-> context]

AddressRaw(context) ==
  [place_type |-> <<"address">>, text |-> StreetName,
   address |-> HouseNumber, context |-> context]

\* a raw record with one expected key missing
Dropped(raw, key) ==
  IF key = "properties.address"
  THEN IF "properties" \in DOMAIN raw
       THEN With(raw, "properties", Without(raw["properties"], "address"))
       ELSE raw
  ELSE Without(raw, key)

DropKeys == {"", "context", "text", "place_type", "properties",
             "properties.address", "address"}

FullContext ==
  <<TokenHood, TokenPostcode, TokenPlace, TokenPlace2, TokenRegion, TokenCountry>>

Raws ==
  {PoiRaw(c) : c \in Contexts} \cup {AddressRaw(c) : c \in Contexts}
    \cup { Dropped(raw, key) :
             raw \in {PoiRaw(FullContext), AddressRaw(FullContext)},
             key \in DropKeys }

\* the formatted addresses: leading name parts, then street, city and
\* "region zip" (some of them missing), then the country
NameAt(i) == IF i % 2 = 1 THEN ShopText ELSE ChainText
NameParts == {[i \in 1..k |-> NameAt(i)] : k \in 0..MaxNameParts}
BodyParts == { <<>>, <<CityText, RegionZip>>, <<StreetLine, CityText, RegionZip>>,
               <<StreetLine, CityText, LongRegionZip>>,
               <<StreetLine, CityText, <<>> >> }
Countries == {UnitedStatesText, PaddedLowerUs, CanadaText}

FormattedAddresses ==
  { Join(names \o body \o <<country>>, CommaSpace) :
      names \in NameParts, body \in BodyParts, country \in Countries }

Location(text, raw) ==
  [address |-> text, latitude |-> 60, longitude |-> 0 - 151, raw |-> raw]

PlainAddress == Join(<<StreetLine, CityText, RegionZip, UnitedStatesText>>, CommaSpace)

NamedAddress ==
  Join(<<ShopText, StreetLine, CityText, RegionZip, UnitedStatesText>>, CommaSpace)
CanadaAddress ==
  Join(<<ShopText, StreetLine, CityText, RegionZip, CanadaText>>, CommaSpace)
ShortAddress == Join(<<CityText, RegionZip, UnitedStatesText>>, CommaSpace)

\* what geocode_address can return: a Location, or None when the geocoder
\* has no result (geopy's RateLimiter, which by default swallows service
\* errors, returns None after one as well)
GeocodeResults ==
  {None}
    \cup {Location(a, PoiRaw(<<TokenPlace, TokenCountry>>)) : a \in FormattedAddresses}
    \cup {Location(PlainAddress, raw) : raw \in Raws}

\* the results explored for the rows of a batch: one of each kind of ending
BatchGeocodeResults ==
  { None,
    Location(NamedAddress, PoiRaw(FullContext)),
    Location(PlainAddress, AddressRaw(FullContext)),
    Location(CanadaAddress, PoiRaw(FullContext)),
    Location(ShortAddress, AddressRaw(FullContext)),
    Location(PlainAddress, Dropped(AddressRaw(FullContext), "context")),
    Location(NamedAddress, Dropped(PoiRaw(FullContext), "properties")) }

GeocoderAnswers(m) == IF m = "csv" THEN BatchGeocodeResults ELSE GeocodeResults

\* what lookup_placekey can return: one of the two tagged results
LookupResults ==
  { [placekey |-> PlacekeyA, query_id |-> "0"],
    [placekey |-> PlacekeyB, query_id |-> "0"],
    [error |-> ErrorInvalid],
    [error |-> ErrorNoMatch] }

\* ... or how it can fail: a transport error of the HTTP client
LookupOutcomes ==
  {Ok(r) : r \in LookupResults} \cup {Raise("ConnectionError", "transport")}

AddressColumn == "Address"
NameColumn == "Name"

\* the rows csv.DictReader yields, with or without a further column; every
\* file has the two named columns and every line has a cell for each column
RowSamples(more) ==
  { IF more THEN With(r, "Phone", <<"5","5","5">>) ELSE r :
      r \in { [Address |-> RawAddress1, Name |-> <<>>],
              [Address |-> RawAddress2, Name |-> HintText] } }

InputFiles ==
  UNION { [1..n -> RowSamples(more)] : n \in 0..MaxRows, more \in BOOLEAN }

(***************************************************************************)
(* The program.                                                            *)
(***************************************************************************)
encodeLocals == <<location, d, pk, calls, geocodes, outcome>>
encodeArgs == <<address, poi, prefer>>
csvVars == <<rows, idx, out, status>>

Init ==
  /\ pc = "start"
  /\ mode = "none"
  /\ address = NoneStr /\ poi = NoneStr /\ prefer = FALSE
  /\ location = None /\ d = None /\ pk = None
  /\ calls = <<>> /\ geocodes = 0 /\ outcome = None
  /\ log = <<>>
  /\ rows = <<>> /\ idx = 0 /\ out = <<>> /\ status = "idle"

\* encode_placekey starts with fresh locals
Enter(a, name, mine) ==
  /\ address' = a /\ poi' = name /\ prefer' = mine
  /\ location' = None /\ d' = None /\ pk' = None
  /\ calls' = <<>> /\ geocodes' = 0 /\ outcome' = None
  /\ pc' = "geocode"

\* the point_of_interest_name values: not given, empty, a name
Hints == {NoneStr, <<>>, HintText}

\* a direct call of encode_placekey (src/test.py test_poi, test_address)
CallEncodePlacekey ==
  /\ pc = "start"
  /\ \E a \in {RawAddress1, RawAddress2}, name \in Hints, mine \in BOOLEAN :
       Enter(a, name, mine)
  /\ mode' = "single"
  /\ UNCHANGED <<log, csvVars>>

\* line 66: location = self.geocoder.geocode_address(address, one_result=True)
Geocode ==
  /\ pc = "geocode"
  /\ \E result \in GeocoderAnswers(mode) : location' = result
  /\ geocodes' = geocodes + 1
  /\ pc' = "map"
  /\ UNCHANGED <<mode, encodeArgs, d, pk, calls, outcome, log, csvVars>>

\* line 67-71: d = self.result_to_dict(location), a KeyError logged and dropped
MapResult ==
  /\ pc = "map"
  /\ LET r == ResultToDict(location)
     IN \/ /\ r.tag = "ok"
           /\ d' = r.value /\ pc' = "merge"
           /\ UNCHANGED <<outcome, log>>
        \/ /\ r.tag = "raise" /\ r.exc = "KeyError"
           /\ d' = None /\ pc' = "merge"
           /\ log' = Append(log, [level |-> "error", line |-> 71,
                                  raw |-> location.raw, what |-> r.what])
           /\ UNCHANGED outcome
        \/ /\ r.tag = "raise" /\ r.exc # "KeyError"
           /\ outcome' = r /\ pc' = "raised"
           /\ UNCHANGED <<d, log>>
  /\ UNCHANGED <<mode, encodeArgs, location, pk, calls, geocodes, csvVars>>

\* mutant of Merged: a supplied hint always replaces the geocoder's name
MergedAlwaysHint(dict, name, mine) ==
  IF ~Truthy(name) THEN Ok(dict)
  ELSE IF dict = None
  THEN Raise("TypeError", "argument of type 'NoneType' is not iterable")
  ELSE Ok(With(dict, "location_name", name))

\* line 73-78: the hint merge rule
Merged(dict, name, mine) ==
  IF ~Truthy(name) THEN Ok(dict)
  ELSE IF dict = None
  THEN Raise("TypeError", "argument of type 'NoneType' is not iterable")
  ELSE IF "location_name" \notin DOMAIN dict
  THEN Ok(With(dict, "location_name", name))
  ELSE IF mine THEN Ok(With(dict, "location_name", name))
  ELSE Ok(dict)

MergeHint ==
  /\ pc = "merge"
  /\ LET r == Merged(d, poi, prefer)
     IN \/ /\ r.tag = "ok"
           /\ d' = r.value /\ pc' = "lookup"
           /\ UNCHANGED outcome
        \/ /\ r.tag = "raise"
           /\ outcome' = r /\ pc' = "raised"
           /\ UNCHANGED d
  /\ UNCHANGED <<mode, encodeArgs, location, pk, calls, geocodes, log, csvVars>>

\* the call itself: the payload goes out and a reply or an error comes back
Call(payload, next) ==
  \E answer \in LookupOutcomes :
    /\ calls' = Append(calls, [payload |-> payload, reply |-> answer])
    /\ \/ /\ answer.tag = "ok"
          /\ pk' = answer.value /\ pc' = next
          /\ UNCHANGED outcome
       \/ /\ answer.tag = "raise"
          /\ outcome' = answer /\ pc' = "raised"
          /\ UNCHANGED pk

\* mutant of LookupPlacekey: a failed mapping is sent as an empty payload
LookupPlacekeyEmptyPayload(next) ==
  Call(IF d = None THEN <<>> ELSE d, next)

\* self.pk_api.lookup_placekey(**d): no call is made when d is not a mapping
LookupPlacekey(next) ==
  \/ /\ d = None
     /\ outcome' = Raise("TypeError", "argument after ** must be a mapping")
     /\ pc' = "raised"
     /\ UNCHANGED <<pk, calls>>
  \/ /\ d # None
     /\ Call(d, next)

\* line 80: pk = self.pk_api.lookup_placekey(**d)
FirstLookup ==
  /\ pc = "lookup"
  /\ LookupPlacekey("check")
  /\ UNCHANGED <<mode, encodeArgs, location, d, geocodes, log, csvVars>>

\* mutant of Reparse: the hint merge rule is applied to the fallback payload
ReparseWithHint ==
  /\ pc = "check"
  /\ \/ /\ "error" \in DOMAIN pk
        /\ log' = Append(log, [level |-> "warning", line |-> 84,
                               d |-> d, pk |-> pk])
        /\ LET r == ParseAddress(location)
           IN \/ /\ r.tag = "ok"
                 /\ d' = Merged(r.value, poi, prefer).value /\ pc' = "lookup2"
                 /\ UNCHANGED outcome
              \/ /\ r.tag = "raise"
                 /\ outcome' = r /\ pc' = "raised"
                 /\ UNCHANGED d
     \/ /\ "error" \notin DOMAIN pk
        /\ pc' = "finish"
        /\ UNCHANGED <<d, outcome, log>>
  /\ UNCHANGED <<mode, encodeArgs, location, pk, calls, geocodes, csvVars>>

\* line 83-85: on an error tag, log it and re-parse the same geocode result
Reparse ==
  /\ pc = "check"
  /\ \/ /\ "error" \in DOMAIN pk
        /\ log' = Append(log, [level |-> "warning", line |-> 84,
                               d |-> d, pk |-> pk])
        /\ LET r == ParseAddress(location)
           IN \/ /\ r.tag = "ok"
                 /\ d' = r.value /\ pc' = "lookup2"
                 /\ UNCHANGED outcome
              \/ /\ r.tag = "raise"
                 /\ outcome' = r /\ pc' = "raised"
                 /\ UNCHANGED d
     \/ /\ "error" \notin DOMAIN pk
        /\ pc' = "finish"
        /\ UNCHANGED <<d, outcome, log>>
  /\ UNCHANGED <<mode, encodeArgs, location, pk, calls, geocodes, csvVars>>

\* line 86: pk = self.pk_api.lookup_placekey(**d)
SecondLookup ==
  /\ pc = "lookup2"
  /\ LookupPlacekey("finish")
  /\ UNCHANGED <<mode, encodeArgs, location, d, geocodes, log, csvVars>>

\* mutant of NotFound: the error names the rejection but not the payload
NotFoundWithoutPayload(dict, result) ==
  [tag |-> "raise", exc |-> "ValueError", what |-> "Placekey not found for address",
   d |-> None, pk |-> result, attempt |-> 2]

\* line 89: the ValueError raised when the last lookup was rejected
NotFound(dict, result) ==
  [tag |-> "raise", exc |-> "ValueError", what |-> "Placekey not found for address",
   d |-> dict, pk |-> result, attempt |-> 2]

\* mutant of Finish: a rejected second lookup is tried again
FinishRetrying ==
  /\ pc = "finish"
  /\ \/ /\ "error" \in DOMAIN pk
        /\ pc' = "lookup2"
        /\ UNCHANGED outcome
     \/ /\ "error" \notin DOMAIN pk
        /\ outcome' = Ok(<<location, pk["placekey"]>>) /\ pc' = "returned"
  /\ UNCHANGED <<mode, encodeArgs, location, d, pk, calls, geocodes, log, csvVars>>

\* line 88-91: raise on an error tag, else return (location, placekey)
Finish ==
  /\ pc = "finish"
  /\ \/ /\ "error" \in DOMAIN pk
        /\ outcome' = NotFound(d, pk) /\ pc' = "raised"
     \/ /\ "error" \notin DOMAIN pk
        /\ outcome' = Ok(<<location, pk["placekey"]>>) /\ pc' = "returned"
  /\ UNCHANGED <<mode, encodeArgs, location, d, pk, calls, geocodes, log, csvVars>>

\* the direct caller receives the result or the exception
SingleDone ==
  /\ mode = "single"
  /\ pc \in {"returned", "raised"}
  /\ pc' = "done"
  /\ UNCHANGED <<mode, encodeArgs, encodeLocals, log, csvVars>>

(***************************************************************************)
(* AddressNormalizer.encode_csv: the batch driver.                         *)
(***************************************************************************)
\* line 191: the field names of the csv.DictWriter
FieldNames == {NameColumn, AddressColumn, "placekey"}

\* str(location): the text csv.writer puts for a Location is its address
Str(loc) == loc.address

\* line 201-205: the local placekey, None when a ValueError was caught
Caught(result) == result.tag = "raise" /\ result.exc = "ValueError"

RowPlacekey(result) == IF result.tag = "ok" THEN result.value ELSE None

\* line 207-210: the copy of the row, with placekey and clean address on
\* success (the Location is kept as the text line 212 writes for it)
RowDict(row, placekey) ==
  IF placekey # None
  THEN With(With(row, "placekey", placekey[2]), AddressColumn, Str(placekey[1]))
  ELSE row

\* line 212: DictWriter.writerow refuses keys that are no field names and
\* writes the empty string for a field the dict lacks
WriteRow(dict) ==
  IF DOMAIN dict \subseteq FieldNames
  THEN Ok([f \in FieldNames |-> IF f \in DOMAIN dict THEN dict[f] ELSE <<>>])
  ELSE Raise("ValueError", "dict contains fields not in fieldnames")

\* line 204-205: the log record of a caught ValueError
CaughtLog(result) ==
  IF Caught(result)
  THEN <<[level |-> "error", line |-> 205, address |-> address,
          location |-> poi, v |-> result]>>
  ELSE <<>>

\* line 186-192 (called as in src/test.py:25): open both files, write the header
CallEncodeCsv ==
  /\ pc = "start"
  /\ \E file \in InputFiles : rows' = file
  /\ mode' = "csv"
  /\ status' = "running"
  /\ pc' = "csv_loop"
  /\ UNCHANGED <<encodeArgs, encodeLocals, log, idx, out>>

\* line 188-189, 214-216: a file that cannot be opened ends the run
CsvOpenFails ==
  /\ pc = "start"
  /\ mode' = "csv"
  /\ status' = "aborted"
  /\ log' = <<[level |-> "error", line |-> 215,
               e |-> Raise("FileNotFoundError", "No such file or directory")]>>
  /\ pc' = "done"
  /\ UNCHANGED <<encodeArgs, encodeLocals, rows, idx, out>>

\* line 195-203: read the next row and call encode_placekey(address, location)
CsvNextRow ==
  /\ mode = "csv" /\ pc = "csv_loop"
  /\ idx < Len(rows)
  /\ idx' = idx + 1
  /\ Enter(rows[idx + 1][AddressColumn], rows[idx + 1][NameColumn], FALSE)
  /\ log' = <<[level |-> "info", line |-> 200,
               address |-> rows[idx + 1][AddressColumn],
               location |-> rows[idx + 1][NameColumn]]>>
  /\ UNCHANGED <<mode, rows, out, status>>

\* line 204-212: a return or a caught ValueError, then the row is written
CsvWriteRow ==
  /\ mode = "csv" /\ pc \in {"returned", "raised"}
  /\ outcome.tag = "ok" \/ Caught(outcome)
  /\ LET w == WriteRow(RowDict(rows[idx], RowPlacekey(outcome)))
     IN /\ w.tag = "ok"
        /\ out' = Append(out, w.value)
  /\ log' = log \o CaughtLog(outcome)
  /\ pc' = "csv_loop"
  /\ UNCHANGED <<mode, encodeArgs, encodeLocals, rows, idx, status>>

\* line 214-216: any other exception is logged and raised again
CsvAbort ==
  /\ mode = "csv" /\ pc \in {"returned", "raised"}
  /\ LET e == IF outcome.tag = "raise" /\ ~Caught(outcome) THEN outcome
              ELSE WriteRow(RowDict(rows[idx], RowPlacekey(outcome)))
     IN /\ e.tag = "raise"
        /\ log' = log \o CaughtLog(outcome)
                      \o <<[level |-> "error", line |-> 215, e |-> e]>>
  /\ status' = "aborted"
  /\ pc' = "done"
  /\ UNCHANGED <<mode, encodeArgs, encodeLocals, rows, idx, out>>

\* line 195: the reader is exhausted, both files are closed
CsvEnd ==
  /\ mode = "csv" /\ pc = "csv_loop"
  /\ idx = Len(rows)
  /\ status' = "finished"
  /\ pc' = "done"
  /\ UNCHANGED <<mode, encodeArgs, encodeLocals, log, rows, idx, out>>

Next ==
  \/ CallEncodePlacekey
  \/ Geocode
  \/ MapResult
  \/ MergeHint
  \/ FirstLookup
  \/ Reparse
  \/ SecondLookup
  \/ Finish
  \/ SingleDone
  \/ CallEncodeCsv
  \/ CsvOpenFails
  \/ CsvNextRow
  \/ CsvWriteRow
  \/ CsvAbort
  \/ CsvEnd

Spec == Init /\ [][Next]_vars

(***************************************************************************)
(* The claims.                                                             *)
(***************************************************************************)
InCall ==
  pc \in {"geocode", "map", "merge", "lookup", "check", "lookup2", "finish",
          "returned", "raised"}

Ended == pc \in {"returned", "raised"}

\* the first lookup came back with an identifier / with an error tag
FirstOk ==
  /\ Len(calls) >= 1
  /\ calls[1].reply.tag = "ok"
  /\ "placekey" \in DOMAIN calls[1].reply.value

FirstRejected ==
  /\ Len(calls) >= 1
  /\ calls[1].reply.tag = "ok"
  /\ "error" \in DOMAIN calls[1].reply.value

BothRejected ==
  /\ Len(calls) = 2
  /\ FirstRejected
  /\ calls[2].reply.tag = "ok"
  /\ "error" \in DOMAIN calls[2].reply.value

IsNotFound(result) ==
  result.tag = "raise" /\ result.exc = "ValueError" /\ "attempt" \in DOMAIN result

TwoColumnFile == \A i \in 1..Len(rows) : DOMAIN rows[i] \subseteq FieldNames

\* C1: in encode_csv no failure of a row aborts the batch: once the driver
\* is done with a file of the two named columns, it has finished normally
\* and has written as many data rows as the input file has.
C1_NoRowFailureAbortsTheBatch ==
  (mode = "csv" /\ pc = "done" /\ idx >= 1 /\ TwoColumnFile)
    => (status = "finished" /\ Len(out) = Len(rows))

\* the row encode_csv is to write for the row in hand
ExpectedRow ==
  IF outcome.tag = "ok"
  THEN [Name |-> rows[idx][NameColumn], Address |-> location.address,
        placekey |-> calls[Len(calls)].reply.value["placekey"]]
  ELSE [Name |-> rows[idx][NameColumn], Address |-> rows[idx][AddressColumn],
        placekey |-> <<>>]

\* C2: once encode_placekey has ended for row idx, in success or in
\* IdentifierNotFound, and the driver has moved on, row idx of the output is
\* written: the original address and an empty placekey for a failing row, the
\* geocoder's address and the returned, non-empty identifier for a
\* succeeding one.
C2_EveryRowWrittenInOrder ==
  (mode = "csv" /\ pc \in {"csv_loop", "done"} /\ idx >= 1
     /\ (outcome.tag = "ok" \/ IsNotFound(outcome)))
    => /\ Len(out) = idx
       /\ out[idx] = ExpectedRow
       /\ outcome.tag = "ok" => out[idx]["placekey"] # <<>>

\* the formatted address has the four parts the fallback parser pops and a
\* "region zip" part that is not empty
FourParts(loc) ==
  /\ Len(AddressParts(loc)) >= 4
  /\ AddressParts(loc)[Len(AddressParts(loc)) - 1] # <<>>

\* C3 as stated (here on formatted addresses of four parts or more): at most
\* two lookups; exactly one when the first succeeds, and its identifier is
\* returned with the geocode result; exactly two when the first returns an
\* error tag, the second with the fallback parser's payload of the same
\* geocode result.
C3_ExactlyTwoLookupsOnRejection ==
  (Ended /\ location # None /\ FourParts(location)) =>
    /\ Len(calls) <= 2
    /\ geocodes = 1
    /\ FirstOk =>
         /\ Len(calls) = 1
         /\ outcome = Ok(<<location, calls[1].reply.value["placekey"]>>)
    /\ FirstRejected =>
         /\ Len(calls) = 2
         /\ calls[2].payload = ParseAddress(location).value

\* C3 amended: at most two lookups at any time and one geocoder call; exactly
\* one lookup when the first succeeds, and its identifier is returned with
\* the geocode result; when the first returns an error tag, exactly two if
\* the fallback parser yields a payload (the second lookup carries it) and
\* exactly one if the fallback parser fails (its error ends the call); a
\* second lookup is made only after a rejected first one.
C3_AtMostTwoLookups ==
  /\ InCall => Len(calls) <= 2 /\ geocodes <= 1
  /\ (InCall /\ Len(calls) = 2) => FirstRejected
  /\ Ended =>
       /\ geocodes = 1
       /\ FirstOk =>
            /\ Len(calls) = 1
            /\ outcome = Ok(<<location, calls[1].reply.value["placekey"]>>)
       /\ (FirstRejected /\ ParseAddress(location).tag = "ok") =>
            /\ Len(calls) = 2
            /\ calls[2].payload = ParseAddress(location).value
       /\ (FirstRejected /\ ParseAddress(location).tag = "raise") =>
            /\ Len(calls) = 1
            /\ outcome = ParseAddress(location)

C3_Witness ==
  /\ pc = "raised"
  /\ BothRejected
  /\ calls[2].payload = ParseAddress(location).value

\* what the raised IdentifierNotFound holds (line 89)
PayloadsCarried(e) == {e.d}
ResultsCarried(e) == {e.pk}

\* C4 as stated: when both lookups return an error tag the call fails with
\* IdentifierNotFound, which carries both payloads and both lookup results.
C4_FailureCarriesBothAttempts ==
  (Ended /\ BothRejected) =>
    /\ IsNotFound(outcome)
    /\ \A i \in 1..2 :
         /\ calls[i].payload \in PayloadsCarried(outcome)
         /\ calls[i].reply.value \in ResultsCarried(outcome)

\* C4 amended: when both lookups return an error tag the call fails with
\* IdentifierNotFound, which carries the fallback payload and the second
\* lookup result; the primary payload and the first lookup result are in the
\* warning logged when the first lookup was rejected.
C4_FailureCarriesLastAttempt ==
  (Ended /\ BothRejected) =>
    /\ IsNotFound(outcome)
    /\ PayloadsCarried(outcome) = {calls[2].payload}
    /\ ResultsCarried(outcome) = {calls[2].reply.value}
    /\ \E i \in 1..Len(log) :
         /\ log[i].line = 84
         /\ log[i].d = calls[1].payload
         /\ log[i].pk = calls[1].reply.value

C4_Witness ==
  /\ pc = "raised"
  /\ BothRejected
  /\ calls[1].reply.value # calls[2].reply.value

\* the primary mapper fails on the geocode result in hand
MappingFails ==
  /\ pc \in {"merge", "lookup", "check", "lookup2", "finish", "returned", "raised"}
  /\ location # None
  /\ ResultToDict(location).tag = "raise"

\* C5: when the primary mapper fails on a result that lacks an expected key,
\* no lookup is ever attempted and the call does not return an identifier,
\* with or without a hint; a missing key (KeyError) is logged.
C5_NoLookupAfterMappingFailure ==
  MappingFails =>
    /\ calls = <<>>
    /\ pc # "returned"
    /\ Ended => outcome.tag = "raise"
    /\ ResultToDict(location).exc = "KeyError" =>
         \E i \in 1..Len(log) : log[i].line = 71

C5_Witness ==
  /\ pc = "raised"
  /\ MappingFails
  /\ ResultToDict(location).exc = "KeyError"
  /\ ~Truthy(poi)

\* C6: every payload passed to the identifier service has street_address,
\* latitude and longitude present with an actual value.
C6_RequiredFieldsPresent ==
  InCall =>
    \A i \in 1..Len(calls) :
      /\ {"street_address", "latitude", "longitude"} \subseteq DOMAIN calls[i].payload
      /\ calls[i].payload["street_address"] # NoneStr
      /\ calls[i].payload["latitude"] \in Int
      /\ calls[i].payload["longitude"] \in Int

\* C7: the first lookup's payload is the mapped payload with the hint merge
\* rule applied: a (non-empty) hint fills a missing location_name, replaces an
\* existing one only when prefer_my_name is true, and without a hint the
\* mapped payload goes out unchanged.
C7_HintMergeRule ==
  (InCall /\ Len(calls) >= 1) =>
    LET mapped == ResultToDict(location).value
        first == calls[1].payload
    IN IF poi # NoneStr /\ poi # <<>>
       THEN /\ DOMAIN first = DOMAIN mapped \cup {"location_name"}
            /\ \A k \in DOMAIN mapped \ {"location_name"} : first[k] = mapped[k]
            /\ first["location_name"] =
                 IF "location_name" \notin DOMAIN mapped THEN poi
                 ELSE IF prefer THEN poi
                 ELSE location.raw["text"]
       ELSE first = mapped

C7_Witness ==
  /\ InCall /\ Len(calls) >= 1
  /\ poi = HintText /\ ~prefer
  /\ "location_name" \in DOMAIN ResultToDict(location).value
  /\ calls[1].payload["location_name"] # poi

UpperUnitedStates == <<"U","N","I","T","E","D"," ","S","T","A","T","E","S">>

\* the last part of the formatted address, upper-cased and trimmed
LastPart(loc) ==
  LET parts == Split(loc.address, CommaSpace)
  IN Strip(Upper(parts[Len(parts)]))

\* the fallback parser has run on the geocode result in hand
Reparsed ==
  /\ pc \in {"lookup2", "finish", "returned", "raised"}
  /\ FirstRejected

\* C8: on a formatted address whose last part is not "UNITED STATES" the
\* fallback parser fails with UnsupportedCountry, whatever the other parts;
\* on one whose last part is, a payload has iso_country_code "us".
C8_NonUsIsUnsupportedCountry ==
  Reparsed =>
    IF LastPart(location) # UpperUnitedStates
    THEN /\ pc = "raised"
         /\ Len(calls) = 1
         /\ outcome = Raise("ValueError", "Could not map country code")
    ELSE Len(calls) = 2 => calls[2].payload["iso_country_code"] = <<"u", "s">>

\* C9: the mapped payload of a POI result has the nested address as its
\* street line and the place name as location_name; that of any other result
\* has "<address> <text>" as its street line and no location_name.
C9_StreetAndNameByKind ==
  (pc = "merge" /\ d # None) =>
    LET raw == location.raw
    IN IF \E i \in 1..Len(raw["place_type"]) : raw["place_type"][i] = "poi"
       THEN /\ d["street_address"] = Get(raw["properties"], "address")
            /\ "location_name" \in DOMAIN d
            /\ d["location_name"] = raw["text"]
       ELSE /\ d["street_address"] = Format(Get(raw, "address")) \o <<" ">> \o raw["text"]
            /\ "location_name" \notin DOMAIN d

C9_Witness ==
  /\ pc = "merge" /\ d # None
  /\ \E i \in 1..Len(location.raw["place_type"]) : location.raw["place_type"][i] = "poi"
  /\ d["street_address"] = StreetLine
  /\ d["location_name"] = ShopText

\* C10: the hint is never applied to the fallback payload: the second lookup
\* carries exactly what parse_address derives from the formatted address, so
\* its location_name is the leading address parts or absent, for every hint
\* and prefer_my_name; and encode_csv calls with prefer_my_name false.
C10_HintNeverInFallbackPayload ==
  /\ (InCall /\ Len(calls) = 2) =>
       LET second == calls[2].payload
           parts == AddressParts(location)
           leading == Join(SubSeq(parts, 1, Len(parts) - 4), CommaSpace)
       IN /\ second = ParseAddress(location).value
          /\ IF leading = <<>> THEN "location_name" \notin DOMAIN second
             ELSE second["location_name"] = leading
  /\ (mode = "csv" /\ InCall) => ~prefer

C10_Witness ==
  /\ InCall /\ Len(calls) = 2
  /\ poi = HintText /\ prefer
  /\ "location_name" \notin DOMAIN calls[2].payload

====
